---- MODULE Spec2Model ----
(***************************************************************************)
(* rashboard: a terminal dashboard (src/src/main.rs).  main() enters a     *)
(* raw-mode / alternate-screen terminal session, then loops: draw a frame  *)
(* of five panels, poll terminal input for the rest of the 1000 ms tick,   *)
(* quit on the key 'q', re-arm the tick; after the loop it restores the    *)
(* terminal.  The panels are formatters over a sysinfo snapshot or over    *)
(* the output of a subprocess.                                             *)
(*                                                                         *)
(* Text is modelled as sequences of one-character strings, so that         *)
(* formatting and parsing are computed, character by character.  Time is   *)
(* in milliseconds.  Integers are those of TLC (32 bit), which is exactly  *)
(* the range of the i32 the update count is parsed into; the u64 values    *)
(* (uptime, memory) are only divided, so their width plays no role below   *)
(* 2^31.                                                                   *)
(***************************************************************************)
EXTENDS Integers, Sequences, FiniteSets, TLC

VARIABLES
    pc,            \* position of the single thread in main() / in the called panel
    rawMode,       \* terminal: raw input mode is enabled
    altScreen,     \* terminal: the alternate screen is active
    mouseCapture,  \* terminal: mouse capture is enabled
    restoreLog,    \* the restoration calls main() has made, in order
    now,           \* the monotonic clock (Instant::now()), ms
    last_tick,     \* main's last_tick
    timeout,       \* main's timeout, as last computed (line 36)
    waitStart,     \* the clock when the last event::poll was entered
    pending,       \* the event event::poll reported, not yet read
    event,         \* the event event::read returned after the last poll
    entered,       \* the setup of lines 22-26 has completed
    host,          \* the host: [total, used, procs], changes on its own
    sys,           \* main's sys (the sysinfo::System handle): [total, used, procs]
    oplog,         \* the calls on sys made during the current frame, in order
    panels,        \* the widgets rendered in the current frame, in order
    arg,           \* a panel function's input, when it is checked on its own
    ret            \* a panel function's body text, when it is checked on its own

vars == <<pc, rawMode, altScreen, mouseCapture, restoreLog, now, last_tick, timeout,
          waitStart, pending, event, entered, host, sys, oplog, panels, arg, ret>>

termVars == <<rawMode, altScreen, mouseCapture, restoreLog, entered>>
timeVars == <<now, last_tick, timeout, waitStart>>
eventVars == <<pending, event>>
frameVars == <<sys, oplog, panels>>
callVars == <<arg, ret>>

----------------------------------------------------------------------------
(* Bounds of the model. *)

\* The clock stops advancing here.
MaxTime == 3000
\* The longest subprocess output drawn from the alphabet (AptAlphabet).
MaxLen == 3
\* The uptimes checked have at most this many whole days.
MaxDays == 2
\* The longest list of watched programs.
MaxPrograms == 2
\* The process table has at most this many processes (pids 1..MaxPid).
MaxPid == 2

----------------------------------------------------------------------------
(* Text. *)

None == "none"

Digits == <<"0","1","2","3","4","5","6","7","8","9">>

IsDigit(c) == \E i \in 1..10 : Digits[i] = c

DigitVal(c) == (CHOOSE i \in 1..10 : Digits[i] = c) - 1

\* The i32 of `let count: i32` (line 146).
I32Max == 2147483647
I32Min == -I32Max - 1

\* format!("{}", n) of an unsigned integer: its decimal digits, no padding.
RECURSIVE FormatUnsigned(_)
FormatUnsigned(n) ==
    IF n < 10 THEN <<Digits[n + 1]>>
    ELSE FormatUnsigned(n \div 10) \o <<Digits[(n % 10) + 1]>>

\* format!("{}", n) of an i32: a '-' and the digits of the magnitude.  The
\* magnitude of I32Min is not an i32: its last digit is split off first.
FormatI32(n) ==
    IF n >= 0 THEN FormatUnsigned(n)
    ELSE IF n > -10 THEN <<"-">> \o FormatUnsigned(-n)
    ELSE <<"-">> \o FormatUnsigned(-(n \div 10) - (IF n % 10 = 0 THEN 0 ELSE 1))
                \o <<Digits[((10 - (n % 10)) % 10) + 1]>>

\* str::trim: what char::is_whitespace accepts, of the characters modelled.
IsWhitespace(c) == c \in {" ", "\n", "\t"}

RECURSIVE TrimStart(_)
TrimStart(s) ==
    IF s # <<>> /\ IsWhitespace(Head(s)) THEN TrimStart(Tail(s)) ELSE s

RECURSIVE TrimEnd(_)
TrimEnd(s) ==
    IF s # <<>> /\ IsWhitespace(s[Len(s)]) THEN TrimEnd(SubSeq(s, 1, Len(s) - 1)) ELSE s

Trim(s) == TrimEnd(TrimStart(s))

\* str::parse::<i32>: an optional single '+' or '-', then one or more ASCII
\* digits, nothing else; a value outside the i32 range is an error.  The value
\* is accumulated with checked arithmetic, downward for a negative number.
ParseErr == [ok |-> FALSE, val |-> 0]

RECURSIVE ParseDigits(_, _, _)
ParseDigits(s, acc, neg) ==
    IF s = <<>> THEN [ok |-> TRUE, val |-> acc]
    ELSE IF ~IsDigit(Head(s)) THEN ParseErr
    ELSE LET d == DigitVal(Head(s)) IN
         IF neg
         THEN IF acc < (I32Min + d) \div 10 + (IF (I32Min + d) % 10 = 0 THEN 0 ELSE 1)
              THEN ParseErr
              ELSE ParseDigits(Tail(s), acc * 10 - d, neg)
         ELSE IF acc > (I32Max - d) \div 10
              THEN ParseErr
              ELSE ParseDigits(Tail(s), acc * 10 + d, neg)

ParseI32(s) ==
    IF s = <<>> THEN ParseErr
    ELSE IF Head(s) \in {"+", "-"}
         THEN IF Len(s) = 1 THEN ParseErr
              ELSE ParseDigits(Tail(s), 0, Head(s) = "-")
         ELSE ParseDigits(s, 0, FALSE)

----------------------------------------------------------------------------
(* The panel bodies (the text each draw_* function hands to Paragraph::new). *)

\* draw_memory_disk, lines 102-106.
MemoryText(used, total) ==
    <<"M","e","m","o","r","y"," ","U","s","a","g","e",":"," ">>
        \o FormatUnsigned(used \div 1024) \o <<"/">>
        \o FormatUnsigned(total \div 1024) \o <<" ","M","B">>

\* The four arguments of the format! of draw_uptime, lines 121-124.
UptimeDays(uptime_seconds) == uptime_seconds \div 86400

\* (A faulty UptimeHours, without the modulo: C7 does not hold of it.)
UptimeHoursNoMod(uptime_seconds) == uptime_seconds \div 3600

UptimeHours(uptime_seconds) == (uptime_seconds % 86400) \div 3600

UptimeMinutes(uptime_seconds) == (uptime_seconds % 3600) \div 60

UptimeSeconds(uptime_seconds) == uptime_seconds % 60

\* draw_uptime, lines 119-125.
UptimeText(uptime_seconds) ==
    <<"U","p","t","i","m","e",":"," ">>
        \o FormatUnsigned(UptimeDays(uptime_seconds)) \o <<"d"," ">>
        \o FormatUnsigned(UptimeHours(uptime_seconds)) \o <<"h"," ">>
        \o FormatUnsigned(UptimeMinutes(uptime_seconds)) \o <<"m"," ">>
        \o FormatUnsigned(UptimeSeconds(uptime_seconds)) \o <<"s">>

\* count_str.trim().parse().unwrap_or(1), line 146: the parsed line count,
\* 1 when the text is no i32.
AptParsed(stdout) ==
    LET r == ParseI32(Trim(stdout)) IN IF r.ok THEN r.val ELSE 1

\* `... - 1` on an i32, line 146.  I32Min - 1 overflows: a build with overflow
\* checks panics there, a build without them wraps to I32Max.
AptOverflows(stdout) == AptParsed(stdout) = I32Min

AptCount(stdout) ==
    IF AptOverflows(stdout) THEN I32Max ELSE AptParsed(stdout) - 1

\* draw_apt_updates, line 148.
AptText(stdout) ==
    <<"A","v","a","i","l","a","b","l","e"," ","U","p","d","a","t","e","s",":"," ">>
        \o FormatI32(AptCount(stdout))

\* The entry of the process table for a pid that no process has.
NoProcess == <<>>

\* sys.processes_by_exact_name(name).next().is_some(), lines 167-170: some
\* process of the table has exactly this name.  A table maps each pid to the
\* name of its process, or to NoProcess.

\* (A faulty IsRunning, which takes a name that starts with the program's for
\* the program's: C6 does not hold of it.)
IsPrefix(p, s) == Len(p) <= Len(s) /\ SubSeq(s, 1, Len(p)) = p

IsRunningByPrefix(procs, program) ==
    \E pid \in DOMAIN procs : procs[pid] # NoProcess /\ IsPrefix(program, procs[pid])

IsRunning(procs, program) ==
    \E pid \in DOMAIN procs : procs[pid] # NoProcess /\ procs[pid] = program

\* One pass of the loop of draw_program_status, lines 171-175.
StatusLine(procs, program) ==
    IF IsRunning(procs, program)
    THEN program \o <<":"," ","R","u","n","n","i","n","g","\n">>
    ELSE program \o <<":"," ","N","o","t"," ","R","u","n","n","i","n","g","\n">>

\* draw_program_status, lines 164-177: statuses after the loop.
RECURSIVE ProgramStatusText(_, _)
ProgramStatusText(procs, programs) ==
    IF programs = <<>> THEN <<>>
    ELSE StatusLine(procs, Head(programs)) \o ProgramStatusText(procs, Tail(programs))

\* sys.refresh_processes(ProcessesToUpdate::All, false), line 163: the process
\* table of the handle becomes the host's.
RefreshProcesses(s, h) == [s EXCEPT !.procs = h.procs]

\* (A faulty RefreshAll, which leaves the handle as it is: C10 does not hold
\* of it.)
RefreshAllSkipped(s, h) == s

\* sys.refresh_all(), line 100: memory and the process table become the host's.
RefreshAll(s, h) == [total |-> h.total, used |-> h.used, procs |-> h.procs]

----------------------------------------------------------------------------
(* The inputs the panel functions are checked on. *)

Pids == 1..MaxPid

nginx == <<"n","g","i","n","x">>
mysql == <<"m","y","s","q","l">>

\* Names a process can have: the watched ones, and names that differ from
\* them in case, by a missing or by an added character.
ProcNames ==
    {nginx, mysql, <<"N","g","i","n","x">>, <<"n","g","i","n">>,
     <<"n","g","i","n","x","2">>, <<"m","y","s","q","l","d">>}

ProcTables == [Pids -> ProcNames \cup {NoProcess}]

NoProcs == [pid \in Pids |-> NoProcess]

\* The &[&str] of line 92, and the lists draw_program_status is checked on.
WatchedPrograms == <<nginx, mysql>>

WatchNames == {nginx, mysql, <<"n","g","i","n">>}

SeqsUpTo(S, n) == UNION {[1..k -> S] : k \in 0..n}

ProgramLists == SeqsUpTo(WatchNames, MaxPrograms) \cup {WatchedPrograms}

\* Uptimes: every combination of first, second and last value of each field,
\* and the largest value the model's integers hold.
UptimeInputs ==
    {d * 86400 + h * 3600 + m * 60 + s :
        d \in 0..MaxDays, h \in {0, 1, 23}, m \in {0, 1, 59}, s \in {0, 1, 59}}
    \cup {I32Max}

\* Standard outputs of `apt list --upgradable 2>/dev/null | wc -l`: every text
\* of at most MaxLen characters of the alphabet, and the texts at the edges
\* of the i32 range.
AptAlphabet == {"0", "1", "6", "-", "+", " ", "\n", "x"}

AptLongOutputs ==
    {<<"2","1","4","7","4","8","3","6","4","7","\n">>,
     <<"2","1","4","7","4","8","3","6","4","8","\n">>,
     <<"-","2","1","4","7","4","8","3","6","4","8","\n">>,
     <<"-","2","1","4","7","4","8","3","6","4","9","\n">>}

AptOutputs == SeqsUpTo(AptAlphabet, MaxLen) \cup AptLongOutputs

----------------------------------------------------------------------------
(* main(): the inputs of the loop. *)

\* let tick_rate = Duration::from_millis(1000), line 28.
TickRate == 1000

\* How long a blocking call (a subprocess, a wait for input) can take: no
\* time, less than a tick, exactly a tick, more than a tick.
Durations == {0, 500, 1000, 1500}

\* No event is pending.
NoEvent == [kind |-> "None", code |-> None]

\* crossterm's Event, as far as line 41-42 tells events apart.
KeyCodes == {"q", "Q", "x", "Esc"}

Events ==
    {[kind |-> "Key", code |-> c] : c \in KeyCodes}
    \cup {[kind |-> "Mouse", code |-> None], [kind |-> "Resize", code |-> None]}

\* The hosts the loop runs on: a memory reading, and nginx running or not.
LoopHosts ==
    {[total |-> m.total, used |-> m.used, procs |-> t] :
        m \in {[total |-> 8388608, used |-> 4194304], [total |-> 8388608, used |-> 1023]},
        t \in {NoProcs, [pid \in Pids |-> IF pid = 1 THEN nginx ELSE NoProcess]}}

LoopUptimes == {90061}

LoopAptOutputs == {<<"6","\n">>, <<"0","\n">>, <<>>}

PueueOutputs == {<<>>, <<"G","r","o","u","p","\n">>}

\* The positions of the loop of lines 33-52, the frame included.
UiPcs == {"ui_memory", "ui_uptime", "ui_apt", "ui_programs", "ui_pueue"}
LoopPcs == {"draw", "poll", "read", "tick"} \cup UiPcs
RestorePcs == {"disable_raw_mode", "leave_screen", "show_cursor"}
\* The process has ended: main returned Ok, returned Err, or panicked.
FinalPcs == {"exit_ok", "exit_err", "panicked"}

\* The restoration of lines 55-61, as the calls it is made of.
Restoration == <<"disable_raw_mode", "leave_screen", "show_cursor">>

----------------------------------------------------------------------------
(* main(): setup, lines 22-31. *)

Init ==
    /\ pc = "enable_raw_mode"
    /\ rawMode = FALSE /\ altScreen = FALSE /\ mouseCapture = FALSE
    /\ restoreLog = <<>>
    /\ entered = FALSE
    /\ now = 0 /\ last_tick = 0 /\ timeout = 0 /\ waitStart = 0
    /\ pending = NoEvent /\ event = NoEvent
    /\ host \in LoopHosts
    /\ sys = [total |-> 0, used |-> 0, procs |-> NoProcs]
    /\ oplog = <<>> /\ panels = <<>>
    /\ arg = <<>> /\ ret = <<>>

\* enable_raw_mode()?, line 22.
EnableRawMode ==
    /\ pc = "enable_raw_mode"
    /\ \/ rawMode' = TRUE /\ pc' = "enter_screen"
       \/ rawMode' = rawMode /\ pc' = "exit_err"
    /\ UNCHANGED <<altScreen, mouseCapture, restoreLog, entered, timeVars, eventVars,
                   host, frameVars, callVars>>

\* execute!(stdout, EnterAlternateScreen, EnableMouseCapture)?, line 24.  The
\* two commands are written in this order: a failure leaves none or the first.
EnterScreen ==
    /\ pc = "enter_screen"
    /\ \/ altScreen' = TRUE /\ mouseCapture' = TRUE /\ pc' = "terminal_new"
       \/ altScreen' \in BOOLEAN /\ mouseCapture' = mouseCapture /\ pc' = "exit_err"
    /\ UNCHANGED <<rawMode, restoreLog, entered, timeVars, eventVars, host, frameVars,
                   callVars>>

\* Terminal::new(backend)?, then lines 28-31: last_tick = Instant::now() and
\* sys = System::new_all(), which loads everything once.
TerminalNew ==
    /\ pc = "terminal_new"
    /\ \/ /\ pc' = "draw"
          /\ entered' = TRUE
          /\ last_tick' = now
          /\ sys' = RefreshAll(sys, host)
       \/ /\ pc' = "exit_err"
          /\ UNCHANGED <<entered, last_tick, sys>>
    /\ UNCHANGED <<rawMode, altScreen, mouseCapture, restoreLog, now, timeout, waitStart,
                   eventVars, host, oplog, panels, callVars>>

----------------------------------------------------------------------------
(* The frame: terminal.draw(|f| ui(f, &mut sys))?, line 34, and ui, lines 66-96. *)

Widget(title, body) == [title |-> title, body |-> body]

\* terminal.draw is entered; it returns Err when the backend fails (the
\* failure is modelled before the closure runs), and calls ui otherwise.
Draw ==
    /\ pc = "draw"
    /\ \/ pc' = "ui_memory" /\ oplog' = <<>> /\ panels' = <<>>
       \/ pc' = "exit_err" /\ UNCHANGED <<oplog, panels>>
    /\ UNCHANGED <<termVars, timeVars, eventVars, host, sys, callVars>>

\* draw_memory_disk, lines 98-113.
DrawMemoryDisk ==
    /\ pc = "ui_memory"
    /\ sys' = RefreshAll(sys, host)
    /\ oplog' = oplog \o <<"refresh_all", "total_memory", "used_memory">>
    /\ panels' = Append(panels, Widget("Memory Usage", MemoryText(sys'.used, sys'.total)))
    /\ pc' = "ui_uptime"
    /\ UNCHANGED <<termVars, timeVars, eventVars, host, callVars>>

\* draw_uptime, lines 115-136: System::uptime() reads the host, not sys.
DrawUptime ==
    /\ pc = "ui_uptime"
    /\ \E uptime_seconds \in LoopUptimes :
          panels' = Append(panels, Widget("System Uptime", UptimeText(uptime_seconds)))
    /\ pc' = "ui_apt"
    /\ UNCHANGED <<termVars, timeVars, eventVars, host, sys, oplog, callVars>>

\* draw_apt_updates, lines 138-155.  Command::output() blocks until the
\* pipeline has ended; when bash cannot be started, expect() panics.
DrawAptUpdates ==
    /\ pc = "ui_apt"
    /\ \/ \E stdout \in LoopAptOutputs, d \in Durations :
             /\ now + d <= MaxTime
             /\ now' = now + d
             /\ panels' = Append(panels, Widget("Apt Updates", AptText(stdout)))
             /\ pc' = "ui_programs"
       \/ pc' = "panicked" /\ UNCHANGED <<now, panels>>
    /\ UNCHANGED <<termVars, last_tick, timeout, waitStart, eventVars, host, sys, oplog,
                   callVars>>

\* The calls draw_program_status makes on sys, lines 163-170: one refresh,
\* then one lookup for each program.
ProgramStatusCalls(programs) ==
    <<"refresh_processes">> \o [i \in 1..Len(programs) |-> "processes_by_exact_name"]

\* draw_program_status(f, chunks[3], sys, &["nginx", "mysql"]), lines 157-188.
DrawProgramStatus ==
    /\ pc = "ui_programs"
    /\ sys' = RefreshProcesses(sys, host)
    /\ oplog' = oplog \o ProgramStatusCalls(WatchedPrograms)
    /\ panels' = Append(panels, Widget("Program Status",
                                       ProgramStatusText(sys'.procs, WatchedPrograms)))
    /\ pc' = "ui_pueue"
    /\ UNCHANGED <<termVars, timeVars, eventVars, host, callVars>>

\* draw_pueue_status, lines 190-209: the output of pueue, as it is; when
\* pueue cannot be started, expect() panics.
DrawPueueStatus ==
    /\ pc = "ui_pueue"
    /\ \/ \E stdout \in PueueOutputs, d \in Durations :
             /\ now + d <= MaxTime
             /\ now' = now + d
             /\ panels' = Append(panels, Widget("Pueue SERVICES Group", stdout))
             /\ pc' = "poll"
       \/ pc' = "panicked" /\ UNCHANGED <<now, panels>>
    /\ UNCHANGED <<termVars, last_tick, timeout, waitStart, eventVars, host, sys, oplog,
                   callVars>>

\* The host changes while the dashboard runs: memory is used and freed,
\* processes start and end.
HostChanges ==
    /\ pc \in LoopPcs
    /\ host' \in LoopHosts \ {host}
    /\ UNCHANGED <<pc, termVars, timeVars, eventVars, frameVars, callVars>>

----------------------------------------------------------------------------
(* The rest of the loop body, lines 36-51. *)

\* (A faulty Timeout, without the clamp: C8 does not hold of it.)
TimeoutUnclamped(elapsed) == TickRate - elapsed

\* tick_rate.checked_sub(last_tick.elapsed()).unwrap_or_else(|| 0 s), lines
\* 36-38: checked_sub is None when the difference would be negative.
Timeout(elapsed) == IF TickRate - elapsed >= 0 THEN TickRate - elapsed ELSE 0

\* (A faulty IsQuit, which takes any key for 'q': C3 does not hold of it.)
IsQuitAnyKey(e) == e.kind = "Key"

\* if let Event::Key(key) = ... { if key.code == KeyCode::Char('q') }, lines 41-42.
IsQuit(e) == e.kind = "Key" /\ e.code = "q"

\* (A faulty TickElapsed, which re-arms the tick in every iteration: C9 does
\* not hold of it.)
TickElapsedAlways(elapsed) == TRUE

\* last_tick.elapsed() >= tick_rate, line 49.
TickElapsed(elapsed) == elapsed >= TickRate

\* Lines 36-40: the budget is computed, then event::poll(timeout)? waits for
\* input for at most that long: it returns Err, or true as soon as an event
\* is there, or false once the budget is used up.
Poll ==
    /\ pc = "poll"
    /\ timeout' = Timeout(now - last_tick)
    /\ waitStart' = now
    /\ event' = NoEvent
    /\ \/ \E e \in Events, d \in Durations :
             /\ d <= timeout' /\ now + d <= MaxTime
             /\ now' = now + d
             /\ pending' = e
             /\ pc' = "read"
       \/ /\ now + timeout' <= MaxTime
          /\ now' = now + timeout'
          /\ pc' = "tick"
          /\ UNCHANGED pending
       \/ pc' = "exit_err" /\ UNCHANGED <<now, pending>>
    /\ UNCHANGED <<termVars, last_tick, host, frameVars, callVars>>

\* Lines 41-47: event::read()? returns the event poll reported, or Err; a key
\* event with the code Char('q') breaks out of the loop.
Read ==
    /\ pc = "read"
    /\ \/ /\ pc' = IF IsQuit(pending) THEN "disable_raw_mode" ELSE "tick"
          /\ event' = pending
          /\ pending' = NoEvent
       \/ pc' = "exit_err" /\ UNCHANGED eventVars
    /\ UNCHANGED <<termVars, timeVars, host, frameVars, callVars>>

\* Lines 49-51, and back to the head of the loop.
Tick ==
    /\ pc = "tick"
    /\ last_tick' = IF TickElapsed(now - last_tick) THEN now ELSE last_tick
    /\ pc' = "draw"
    /\ UNCHANGED <<termVars, now, timeout, waitStart, eventVars, host, frameVars, callVars>>

----------------------------------------------------------------------------
(* The restoration, lines 55-63.  Each call is followed by `?`: main returns
   at the first that fails. *)

\* disable_raw_mode()?, line 55.
DisableRawMode ==
    /\ pc = "disable_raw_mode"
    /\ restoreLog' = Append(restoreLog, "disable_raw_mode")
    /\ \/ rawMode' = FALSE /\ pc' = "leave_screen"
       \/ rawMode' = rawMode /\ pc' = "exit_err"
    /\ UNCHANGED <<altScreen, mouseCapture, entered, timeVars, eventVars, host, frameVars,
                   callVars>>

\* execute!(terminal.backend_mut(), LeaveAlternateScreen, DisableMouseCapture)?,
\* lines 56-60: a failure leaves none or the first of the two done.
LeaveScreen ==
    /\ pc = "leave_screen"
    /\ restoreLog' = Append(restoreLog, "leave_screen")
    /\ \/ altScreen' = FALSE /\ mouseCapture' = FALSE /\ pc' = "show_cursor"
       \/ altScreen' \in BOOLEAN /\ mouseCapture' = mouseCapture /\ pc' = "exit_err"
    /\ UNCHANGED <<rawMode, entered, timeVars, eventVars, host, frameVars, callVars>>

\* terminal.show_cursor()?, line 61, and Ok(()), line 63.
ShowCursor ==
    /\ pc = "show_cursor"
    /\ restoreLog' = Append(restoreLog, "show_cursor")
    /\ pc' \in {"exit_ok", "exit_err"}
    /\ UNCHANGED <<rawMode, altScreen, mouseCapture, entered, timeVars, eventVars, host,
                   frameVars, callVars>>

Next ==
    \/ EnableRawMode \/ EnterScreen \/ TerminalNew
    \/ Draw \/ DrawMemoryDisk \/ DrawUptime \/ DrawAptUpdates \/ DrawProgramStatus
    \/ DrawPueueStatus \/ HostChanges
    \/ Poll \/ Read \/ Tick
    \/ DisableRawMode \/ LeaveScreen \/ ShowCursor

Spec == Init /\ [][Next]_vars

----------------------------------------------------------------------------
(* The panel functions on their own: each is called once, on an input drawn
   from the sets above. *)

InitCall(at) ==
    /\ pc = at
    /\ rawMode = TRUE /\ altScreen = TRUE /\ mouseCapture = TRUE
    /\ restoreLog = <<>>
    /\ entered = TRUE
    /\ now = 0 /\ last_tick = 0 /\ timeout = 0 /\ waitStart = 0
    /\ pending = NoEvent /\ event = NoEvent
    /\ oplog = <<>> /\ panels = <<>>
    /\ ret = <<>>

IdleHost == [total |-> 0, used |-> 0, procs |-> NoProcs]

\* draw_uptime on the uptime arg.
InitUptime ==
    /\ InitCall("call_draw_uptime")
    /\ arg \in UptimeInputs
    /\ host = IdleHost /\ sys = IdleHost

CallDrawUptime ==
    /\ pc = "call_draw_uptime"
    /\ ret' = UptimeText(arg)
    /\ panels' = Append(panels, Widget("System Uptime", ret'))
    /\ pc' = "returned"
    /\ UNCHANGED <<termVars, timeVars, eventVars, host, sys, oplog, arg>>

NextUptime == CallDrawUptime

SpecUptime == InitUptime /\ [][NextUptime]_vars

\* draw_apt_updates on the standard output arg of a pipeline that was started.
InitApt ==
    /\ InitCall("call_draw_apt_updates")
    /\ arg \in AptOutputs
    /\ host = IdleHost /\ sys = IdleHost

\* The subtraction of line 146 does not overflow, or wraps.
CallDrawAptUpdates ==
    /\ pc = "call_draw_apt_updates"
    /\ ret' = AptText(arg)
    /\ panels' = Append(panels, Widget("Apt Updates", ret'))
    /\ pc' = "returned"
    /\ UNCHANGED <<termVars, timeVars, eventVars, host, sys, oplog, arg>>

\* The subtraction of line 146 overflows in a build that checks overflow.
CallDrawAptUpdatesOverflow ==
    /\ pc = "call_draw_apt_updates"
    /\ AptOverflows(arg)
    /\ pc' = "panicked"
    /\ UNCHANGED <<termVars, timeVars, eventVars, host, frameVars, callVars>>

NextApt == CallDrawAptUpdates \/ CallDrawAptUpdatesOverflow

SpecApt == InitApt /\ [][NextApt]_vars

\* draw_program_status on the list of programs arg, with any process table on
\* the host, and in sys the table of some earlier refresh.
StaleTables == {NoProcs, [pid \in Pids |-> nginx]}

InitStatus ==
    /\ InitCall("call_draw_program_status")
    /\ arg \in ProgramLists
    /\ \E t \in ProcTables : host = [total |-> 0, used |-> 0, procs |-> t]
    /\ \E t \in StaleTables : sys = [total |-> 0, used |-> 0, procs |-> t]

CallDrawProgramStatus ==
    /\ pc = "call_draw_program_status"
    /\ sys' = RefreshProcesses(sys, host)
    /\ oplog' = oplog \o ProgramStatusCalls(arg)
    /\ ret' = ProgramStatusText(sys'.procs, arg)
    /\ panels' = Append(panels, Widget("Program Status", ret'))
    /\ pc' = "returned"
    /\ UNCHANGED <<termVars, timeVars, eventVars, host, arg>>

NextStatus == CallDrawProgramStatus

SpecStatus == InitStatus /\ [][NextStatus]_vars

----------------------------------------------------------------------------
(* What the properties are stated with: decimal text and lines, defined
   apart from the formatting and parsing above. *)

\* The decimal numeral of n >= 0, digit by digit from the powers of ten.
DecLen(n) ==
    CHOOSE k \in 1..10 : (k = 10 \/ n < 10 ^ k) /\ (k = 1 \/ n >= 10 ^ (k - 1))

Dec(n) == [i \in 1..DecLen(n) |-> Digits[((n \div (10 ^ (DecLen(n) - i))) % 10) + 1]]

\* The numbers written in a text: the value of each maximal run of digits.
RECURSIVE ScanNumbers(_, _, _, _)
ScanNumbers(s, inRun, cur, acc) ==
    IF s = <<>> THEN (IF inRun THEN Append(acc, cur) ELSE acc)
    ELSE IF IsDigit(Head(s))
         THEN ScanNumbers(Tail(s), TRUE, (IF inRun THEN cur * 10 ELSE 0) + DigitVal(Head(s)), acc)
         ELSE ScanNumbers(Tail(s), FALSE, 0, IF inRun THEN Append(acc, cur) ELSE acc)

NumbersIn(s) == ScanNumbers(s, FALSE, 0, <<>>)

\* The lines of a text: each ends at a "\n"; what follows the last "\n", if
\* anything, is a last line without one.
RECURSIVE LinesOf(_)
LinesOf(s) ==
    IF s = <<>> THEN <<>>
    ELSE IF \E i \in 1..Len(s) : s[i] = "\n"
         THEN LET i == CHOOSE i \in 1..Len(s) :
                          s[i] = "\n" /\ \A j \in 1..(i - 1) : s[j] # "\n"
              IN <<SubSeq(s, 1, i - 1)>> \o LinesOf(SubSeq(s, i + 1, Len(s)))
         ELSE <<s>>

\* Lines joined by "\n", none after the last.
RECURSIVE JoinLines(_)
JoinLines(ls) ==
    IF ls = <<>> THEN <<>>
    ELSE IF Len(ls) = 1 THEN ls[1]
    ELSE ls[1] \o <<"\n">> \o JoinLines(Tail(ls))

----------------------------------------------------------------------------
(* C7: the Uptime panel. *)

UptimeIs(d, h, m, s) ==
    <<"U","p","t","i","m","e",":"," ">> \o Dec(d) \o <<"d"," ">> \o Dec(h) \o <<"h"," ">>
        \o Dec(m) \o <<"m"," ">> \o Dec(s) \o <<"s">>

\* C7: for every uptime S >= 0 (arg), the body draw_uptime renders (ret) is
\* "Uptime: {d}d {h}h {m}m {s}s" with d = S div 86400, h = (S mod 86400) div
\* 3600, m = (S mod 3600) div 60, s = S mod 60; the four numbers written in the
\* body are non-negative, the second is below 24, the third and the fourth
\* below 60, and they add up to S as days, hours, minutes and seconds;
\* S = 90061 renders "Uptime: 1d 1h 1m 1s".
C7_UptimeDecomposition ==
    pc = "returned" =>
        LET n == NumbersIn(ret) IN
        /\ ret = UptimeIs(arg \div 86400, (arg % 86400) \div 3600, (arg % 3600) \div 60,
                          arg % 60)
        /\ Len(n) = 4
        /\ \A i \in 1..4 : n[i] >= 0
        /\ n[2] < 24 /\ n[3] < 60 /\ n[4] < 60
        /\ n[1] * 86400 + n[2] * 3600 + n[3] * 60 + n[4] = arg
        /\ (arg = 90061 =>
                ret = <<"U","p","t","i","m","e",":"," ","1","d"," ","1","h"," ","1","m",
                        " ","1","s">>)

\* draw_uptime has rendered an uptime of more than a day whose hours, minutes
\* and seconds are all at their last value.
C7_Witness ==
    /\ pc = "returned"
    /\ arg = 86400 + 23 * 3600 + 59 * 60 + 59
    /\ ret = <<"U","p","t","i","m","e",":"," ","1","d"," ","2","3","h"," ","5","9","m",
               " ","5","9","s">>

----------------------------------------------------------------------------
(* C6: the Program Status panel. *)

\* Some process of the table has exactly this name.
HasProcessNamed(table, name) == \E pid \in DOMAIN table : table[pid] = name

StatusLineIs(table, name) ==
    IF HasProcessNamed(table, name)
    THEN name \o <<":"," ","R","u","n","n","i","n","g">>
    ELSE name \o <<":"," ","N","o","t"," ","R","u","n","n","i","n","g">>

StatusLinesAre(table, names) == [i \in 1..Len(names) |-> StatusLineIs(table, names[i])]

\* C6, as claimed: for any list of watched names (arg) and any process table
\* of the host, the body (ret) is the lines "{name}: Running" / "{name}: Not
\* Running", one for each watched name in the order of the list, decided by a
\* process of exactly that name, joined by "\n" with nothing after the last
\* line, as in "nginx: Running\nmysql: Not Running".
C6_JoinedWithoutTrailingNewline ==
    pc = "returned" => ret = JoinLines(StatusLinesAre(host.procs, arg))

\* C6, amended: for any list of watched names (arg) and any process table of
\* the host, the lines of the body (ret) are exactly one for each watched name,
\* in the order of the list, each exactly "{name}: Running" if some process of
\* the table has exactly that name and "{name}: Not Running" otherwise; every
\* line, the last one too, ends with "\n", so that the body for nginx running
\* and mysql not is "nginx: Running\nmysql: Not Running\n".
C6_OneTerminatedLinePerProgram ==
    pc = "returned" =>
        /\ LinesOf(ret) = StatusLinesAre(host.procs, arg)
        /\ (arg # <<>> => ret[Len(ret)] = "\n")
        /\ Len(ret) = Len(JoinLines(StatusLinesAre(host.procs, arg)))
                        + (IF arg = <<>> THEN 0 ELSE 1)

\* draw_program_status has rendered nginx and mysql, on a host where a process
\* is named nginx, none mysql, and another process has a longer name that
\* starts with mysql.
C6_Witness ==
    /\ pc = "returned"
    /\ arg = WatchedPrograms
    /\ HasProcessNamed(host.procs, nginx)
    /\ HasProcessNamed(host.procs, <<"m","y","s","q","l","d">>)
    /\ ~HasProcessNamed(host.procs, mysql)
    /\ ret = <<"n","g","i","n","x",":"," ","R","u","n","n","i","n","g","\n",
               "m","y","s","q","l",":"," ","N","o","t"," ","R","u","n","n","i","n","g","\n">>

----------------------------------------------------------------------------
(* C5: the Available Updates panel. *)

UpdatesAre(digits) ==
    <<"A","v","a","i","l","a","b","l","e"," ","U","p","d","a","t","e","s",":"," ">> \o digits

\* The count written in the body is negative.
UpdatesNegative(body) == Len(body) > Len(UpdatesAre(<<>>)) /\ body[Len(UpdatesAre(<<>>)) + 1] = "-"

\* C5: when the output of the command (arg), trimmed, is a line count N >= 1,
\* the body (ret) is "Available Updates: {N-1}"; when it is empty or does not
\* parse as an integer, the body is "Available Updates: 0" and the renderer
\* does not crash; the count in the body is never negative.
C5_UpdatesCount ==
    pc \in {"returned", "panicked"} =>
        /\ \A N \in 1..99 : Trim(arg) = Dec(N) =>
               pc = "returned" /\ ret = UpdatesAre(Dec(N - 1))
        /\ ~ParseI32(Trim(arg)).ok =>
               pc = "returned" /\ ret = UpdatesAre(<<"0">>)
        /\ pc = "returned" => ~UpdatesNegative(ret)

----------------------------------------------------------------------------
(* C1, C2, C4: the terminal session. *)

\* The terminal is as it was before line 22, as far as main() changed it.
TerminalRestored == ~rawMode /\ ~altScreen /\ ~mouseCapture

\* C1: once the terminal session has been entered, the process ends, by
\* whatever path out of the loop ('q', or an error of terminal.draw, of
\* event::poll or of event::read), only after the restoration (disable raw
\* mode, leave the alternate screen and disable mouse capture, show the
\* cursor) has been invoked exactly once, and never with the terminal still in
\* raw mode, on the alternate screen, or partly restored.
C1_RestoredOnEveryExit ==
    (pc \in FinalPcs /\ entered) => restoreLog = Restoration /\ TerminalRestored

\* C2: when 'q' arrives during the wait for input, the loop is left within
\* the wait budget, which is at most the tick interval, and no frame is
\* rendered after it; then the restoration runs exactly once and the process
\* ends successfully.  (The loop is left for the restoration only by 'q':
\* restoreLog is empty on every other path.)
C2_QuitRestoresAndSucceeds ==
    /\ pc \in RestorePcs =>
           /\ event = [kind |-> "Key", code |-> "q"]
           /\ now - waitStart <= timeout /\ timeout <= TickRate
    /\ (pc \in FinalPcs /\ restoreLog # <<>>) =>
           pc = "exit_ok" /\ restoreLog = Restoration /\ TerminalRestored

\* C4: when bash or pueue cannot be started during a frame, the process ends
\* (the panic of expect()), and only after the restoration has been attempted.
C4_SpawnFailureRestores ==
    pc = "panicked" => restoreLog # <<>>

----------------------------------------------------------------------------
(* C3: what ends the loop. *)

QuitKey == [kind |-> "Key", code |-> "q"]

\* C3: the loop goes from RUNNING to STOPPED (the restoration after the
\* break) only when event::read returns a key event with the character 'q'.
\* A poll that times out, a mouse or resize event, and a key event with any
\* other code keep it RUNNING: the tick check follows, and after the tick
\* check, whatever the elapsed time, the next frame.  (An Err of draw, poll or
\* read and a panic end the process, not by this transition: C1, C4.)
C3_OnlyQuitStops ==
    [][ /\ (pc \in LoopPcs /\ pc' \notin LoopPcs /\ pc' \notin {"exit_err", "panicked"}) =>
               pc = "read" /\ pending = QuitKey /\ pc' = "disable_raw_mode"
        /\ (pc = "read" /\ pending # QuitKey /\ pc' \notin {"read", "exit_err"}) =>
               pc' = "tick" /\ event' = pending
        /\ (pc = "poll" /\ pc' \notin {"poll", "exit_err"}) =>
               \/ pc' = "read" /\ pending' \in Events
               \/ pc' = "tick" /\ now' = now + timeout'
        /\ (pc = "tick" /\ pc' # "tick") => pc' = "draw"
      ]_vars

\* A key other than 'q' (here 'Q') was read, the tick check has run, and the
\* loop is about to draw the next frame.
C3_Witness ==
    /\ pc = "draw"
    /\ event = [kind |-> "Key", code |-> "Q"]
    /\ Len(panels) = 5

----------------------------------------------------------------------------
(* C8: the wait budget. *)

\* C8: the budget passed to event::poll is the tick interval minus the time
\* elapsed since the tick boundary when that is not negative, and zero when it
\* is; so it lies in 0..1000 ms in every state, the wait for input lasts at
\* most the budget, and after a frame that took a tick or longer the poll does
\* not block.
C8_WaitBudget ==
    /\ 0 <= timeout /\ timeout <= TickRate
    /\ pc \in {"read", "tick"} =>
           LET elapsed == waitStart - last_tick IN
           /\ elapsed >= 0
           /\ (elapsed <= TickRate => timeout = TickRate - elapsed)
           /\ (elapsed > TickRate => timeout = 0)
           /\ now - waitStart >= 0 /\ now - waitStart <= timeout
           /\ (elapsed >= TickRate => now = waitStart)

\* A frame took longer than a tick, and the poll after it returned at once.
C8_Witness ==
    /\ pc = "tick"
    /\ waitStart - last_tick > TickRate
    /\ timeout = 0
    /\ now = waitStart

----------------------------------------------------------------------------
(* C9: the tick boundary. *)

\* C9: last_tick changes only in the tick check at the end of an iteration,
\* only when the time elapsed since it is at least the tick interval, and then
\* to the current time; an iteration in which an event arrived before the tick
\* had elapsed goes on to the next frame with last_tick unchanged; last_tick
\* never moves backward.
C9_TickBoundary ==
    [][ /\ last_tick' # last_tick =>
               pc = "tick" /\ now - last_tick >= TickRate /\ last_tick' = now /\ now' = now
        /\ last_tick' >= last_tick
        /\ (pc = "tick" /\ pc' # "tick" /\ now - last_tick < TickRate) =>
               pc' = "draw" /\ last_tick' = last_tick
      ]_vars

\* The boundary has been moved once, and later an iteration that an event cut
\* short has ended before the next tick, the boundary left where it was.
C9_Witness ==
    /\ pc = "draw"
    /\ event \in Events
    /\ last_tick > 0
    /\ now - last_tick > 0 /\ now - last_tick < TickRate

----------------------------------------------------------------------------
(* C10: refresh before read, and the order of the panels. *)

PanelOrder ==
    <<"Memory Usage", "System Uptime", "Apt Updates", "Program Status",
      "Pueue SERVICES Group">>

\* In the calls of the frame so far, a refresh_all precedes every read of
\* memory, and a refresh of the process table precedes every lookup in it.
RefreshPrecedesReads ==
    \A i \in 1..Len(oplog) :
        /\ oplog[i] \in {"total_memory", "used_memory"} =>
               \E j \in 1..(i - 1) : oplog[j] = "refresh_all"
        /\ oplog[i] = "processes_by_exact_name" =>
               \E j \in 1..(i - 1) : oplog[j] \in {"refresh_processes", "refresh_all"}

\* C10: in every frame, on the one handle sys, refresh_all runs before total
\* and used memory are read, and the process table is refreshed before any
\* lookup of a watched name, so that the Memory Usage and the Program Status
\* panel show the host as it is when they are drawn, never what an earlier
\* frame left in sys; the panels are produced in the order Memory Usage,
\* Uptime, Available Updates, Program Status, External Task-Queue Status.
C10_RefreshBeforeRead ==
    /\ [](RefreshPrecedesReads
          /\ Len(panels) <= 5
          /\ \A i \in 1..Len(panels) : panels[i].title = PanelOrder[i])
    /\ [][ /\ (pc = "ui_memory" /\ pc' # pc) =>
                  /\ oplog = <<>>
                  /\ panels' = <<[title |-> "Memory Usage",
                                  body |-> <<"M","e","m","o","r","y"," ","U","s","a","g","e",
                                             ":"," ">> \o Dec(host.used \div 1024) \o <<"/">>
                                             \o Dec(host.total \div 1024) \o <<" ","M","B">>]>>
           /\ (pc = "ui_programs" /\ pc' # pc) =>
                  /\ Len(panels') = 4
                  /\ LinesOf(panels'[4].body) = StatusLinesAre(host.procs, <<nginx, mysql>>)
           /\ (pc \in UiPcs /\ pc' \notin UiPcs) =>
                  \/ pc' = "panicked"
                  \/ pc' = "poll" /\ Len(panels') = 5
         ]_vars

\* A later frame is complete, drawn after the host's memory use and its
\* processes changed: the panels show the host as it is now (nginx running,
\* 1023 KB in use), not as it was when sys was created.
C10_Witness ==
    /\ pc = "poll"
    /\ Len(panels) = 5
    /\ last_tick > 0
    /\ host.used = 1023 /\ HasProcessNamed(host.procs, nginx)
    /\ panels[1].body = <<"M","e","m","o","r","y"," ","U","s","a","g","e",":"," ",
                          "0","/","8","1","9","2"," ","M","B">>
    /\ panels[4].body = <<"n","g","i","n","x",":"," ","R","u","n","n","i","n","g","\n",
                          "m","y","s","q","l",":"," ","N","o","t"," ","R","u","n","n","i","n","g","\n">>

====
